---- MODULE Spec2Model ----
(***************************************************************************)
(* Model of src/js/charts/NumberChart.js: the two chart widgets            *)
(* NumberChart and LineChart.  Only the widget state is modelled (series   *)
(* registry, sample buffers, line generators, displayed maximum, period    *)
(* and sampling time); the d3/DOM rendering calls read that state and are  *)
(* left out.  A call that throws is recorded in last.err together with the *)
(* state it leaves behind.                                                 *)
(*                                                                         *)
(* Capacities are scaled down: the sampling times explored are the         *)
(* constructor's 10 ms and 1000 ms, 3000 ms, so that periods of a few      *)
(* seconds give buffers of a few samples.  Only calls that keep            *)
(* period / samplingTime * 1000 a whole number are explored.               *)
(***************************************************************************)
EXTENDS Integers, Sequences, FiniteSets, TLC

\* ------------------------------------------------------------- bounds
\* Series identifiers 1..MaxDataType; each has an entry in the external
\* dataTypes lookup (color, translation).
MaxDataType == 2
\* Sample values range over -NegVals..MaxVal.
NegVals == 1
MaxVal == 2
\* changePeriod is called with 0..MaxPeriod (and the constructor's period).
MaxPeriod == 3
\* addDataType and push are explored only while the capacity is at most MaxCap.
MaxCap == 3
\* addDataType is explored only while chartMap is shorter than MaxChartMap.
MaxChartMap == 2
\* Number of most recent consecutive pushes remembered by the run history.
MaxRun == 3

\* ------------------------------------------------- program constants
DefaultPeriod == 6
DefaultSamplingTime == 10
NumberSamplingTime == 10
MsPerSecond == 1000

DataTypes == 1..MaxDataType
Values == (0 - NegVals)..MaxVal
Periods == (0..MaxPeriod) \cup {DefaultPeriod}
SamplingTimes == {DefaultSamplingTime, MsPerSecond, 3 * MsPerSecond}

\* Stands for JavaScript's -Infinity: below every sample value.
NegInfinity == (0 - NegVals) - 1

VARIABLES
    chartMap,           \* LineChart.chartMap: array of registered data types
    data,               \* LineChart.data: data type -> sample buffer (sparse)
    lines,              \* LineChart.lines: data types that own a line generator
    maxDisplayedValue,  \* LineChart.maxDisplayedValue
    period,             \* LineChart.period (s)
    samplingTime,       \* LineChart.samplingTime (ms)
    nChartMap,          \* NumberChart.chartMap
    nSamplingTime,      \* NumberChart.samplingTime
    nText,              \* text shown by NumberChart.valueContainer
    last,               \* the last call made, the error it threw and the
                        \* number of buffers it cut
    runDt,              \* history: series added last, 0 when none is followed
    pushed              \* history: the values pushed on runDt since it was added

lineVars == <<chartMap, data, lines, maxDisplayedValue, period, samplingTime>>
numberVars == <<nChartMap, nSamplingTime, nText>>
runVars == <<runDt, pushed>>
vars == <<chartMap, data, lines, maxDisplayedValue, period, samplingTime,
          nChartMap, nSamplingTime, nText, last, runDt, pushed>>

\* ------------------------------------------------------ array helpers
Range(arr) == {arr[i] : i \in DOMAIN arr}

SetMin(S) == CHOOSE x \in S : \A y \in S : x <= y

SetMax(S) == CHOOSE x \in S : \A y \in S : x >= y

\* new Array(n).fill(0)
zeros(n) == [i \in 1..n |-> 0]

\* Array.prototype.indexOf: 0-based index of the first occurrence, or -1.
indexOf(arr, x) ==
    IF x \in Range(arr)
    THEN SetMin({i \in DOMAIN arr : arr[i] = x}) - 1
    ELSE -1

\* Array.prototype.splice(start, 1): a negative start counts from the end.
splice(arr, start) ==
    LET len == Len(arr)
        from == IF start < 0
                THEN (IF len + start < 0 THEN 0 ELSE len + start)
                ELSE (IF start > len THEN len ELSE start)
    IN SubSeq(arr, 1, from) \o SubSeq(arr, from + 2, len)

\* Math.max(...arr): -Infinity for an empty array.
MathMax(arr) == IF Len(arr) = 0 THEN NegInfinity ELSE SetMax(Range(arr))

\* Mutant of setLength: the array is cut one element too short.
setLengthShort(arr, n) == SubSeq(arr, 1, n - 1)

\* arr.length = n, for n not above the current length.
setLength(arr, n) == SubSeq(arr, 1, n)

\* delete obj[key]
deleteKey(obj, key) == [k \in (DOMAIN obj) \ {key} |-> obj[k]]

\* obj[key] = value
setKey(obj, key, value) ==
    [k \in (DOMAIN obj) \cup {key} |-> IF k = key THEN value ELSE obj[k]]

\* ------------------------------------------------ LineChart functions
getSamplingTime == samplingTime

\* period / samplingTime * 1000.  The calls explored keep the quotient a
\* whole number (see ExactCapacity), so integer division computes it.
AmountOfValues(p, t) == (p * MsPerSecond) \div t

getAmountOfValues == AmountOfValues(period, getSamplingTime)

ExactCapacity(p, t) == (p * MsPerSecond) % t = 0

\* Object.keys(d).forEach in ascending key order, starting from maxValue.
RECURSIVE maxOverKeys(_, _, _)
maxOverKeys(d, keys, maxValue) ==
    IF keys = {} THEN maxValue
    ELSE LET key == SetMin(keys)
             max == MathMax(d[key])
         IN maxOverKeys(d, keys \ {key}, IF max > maxValue THEN max ELSE maxValue)

\* Mutant of getMaxValueFromData: the loop stops after the first key.
getMaxValueFromDataFirstKey(d) ==
    IF DOMAIN d = {} THEN 0 ELSE maxOverKeys(d, {SetMin(DOMAIN d)}, 0)

getMaxValueFromData(d) == maxOverKeys(d, DOMAIN d, 0)

push(dataType, value) ==
    IF dataType \notin DOMAIN data
    THEN \* me.data[dataType] is undefined: calling .push on it throws
         /\ last' = [op |-> "push", err |-> "TypeError", cut |-> 0]
         /\ UNCHANGED lineVars
    ELSE LET appended == Append(data[dataType], value)
             reached == Len(appended) >= getAmountOfValues
             droppedValue == appended[1]
             buffer == IF reached THEN Tail(appended) ELSE appended
             data1 == [data EXCEPT ![dataType] = buffer]
             max1 == IF reached /\ droppedValue >= maxDisplayedValue
                     THEN getMaxValueFromData(data1)
                     ELSE maxDisplayedValue
         IN /\ data' = data1
            /\ maxDisplayedValue' = IF value > max1 THEN value ELSE max1
            /\ last' = [op |-> "push", err |-> "none", cut |-> 0]
            /\ UNCHANGED <<chartMap, lines, period, samplingTime>>

addDataType(dataType) ==
    IF getAmountOfValues - 1 < 0
    THEN \* new Array(negative length) throws before anything is assigned
         /\ last' = [op |-> "addDataType", err |-> "RangeError", cut |-> 0]
         /\ UNCHANGED lineVars
    ELSE /\ data' = setKey(data, dataType, zeros(getAmountOfValues - 1))
         /\ chartMap' = Append(chartMap, dataType)
         /\ lines' = lines \cup {dataType}
         /\ last' = [op |-> "addDataType", err |-> "none", cut |-> 0]
         /\ UNCHANGED <<maxDisplayedValue, period, samplingTime>>

removeDataType(dataType) ==
    /\ lines' = lines \ {dataType}
    /\ chartMap' = splice(chartMap, indexOf(chartMap, dataType))
    /\ data' = deleteKey(data, dataType)
    /\ maxDisplayedValue' = getMaxValueFromData(data')
    /\ last' = [op |-> "removeDataType", err |-> "none", cut |-> 0]
    /\ UNCHANGED <<period, samplingTime>>

changePeriod(newPeriod) ==
    LET amount == AmountOfValues(newPeriod, getSamplingTime)
    IN /\ period' = newPeriod
       /\ data' = [dataType \in DOMAIN data |->
                      IF amount < Len(data[dataType])
                      THEN setLength(data[dataType], amount)
                      ELSE data[dataType]]
       /\ last' = [op |-> "changePeriod", err |-> "none",
                   cut |-> Cardinality({dataType \in DOMAIN data :
                                           amount < Len(data[dataType])})]
       /\ UNCHANGED <<chartMap, lines, maxDisplayedValue, samplingTime>>

setSamplingTime(newSamplingTime) ==
    /\ samplingTime' = newSamplingTime
    /\ last' = [op |-> "setSamplingTime", err |-> "none", cut |-> 0]
    /\ UNCHANGED <<chartMap, data, lines, maxDisplayedValue, period>>

\* ---------------------------------------------- NumberChart functions
NumberChart_push(lineId, value) ==
    /\ nText' = value
    /\ last' = [op |-> "NumberChart.push", err |-> "none", cut |-> 0]
    /\ UNCHANGED <<nChartMap, nSamplingTime>>

NumberChart_addDataType(dataType) ==
    /\ nChartMap' = Append(nChartMap, dataType)
    /\ last' = [op |-> "NumberChart.addDataType", err |-> "none", cut |-> 0]
    /\ UNCHANGED <<nSamplingTime, nText>>

NumberChart_removeDataType(dataType) ==
    /\ nChartMap' = splice(nChartMap, indexOf(nChartMap, dataType))
    /\ last' = [op |-> "NumberChart.removeDataType", err |-> "none", cut |-> 0]
    /\ UNCHANGED <<nSamplingTime, nText>>

NumberChart_setSamplingTime(newSamplingTime) ==
    /\ nSamplingTime' = newSamplingTime
    /\ last' = [op |-> "NumberChart.setSamplingTime", err |-> "none", cut |-> 0]
    /\ UNCHANGED <<nChartMap, nText>>

\* ------------------------------------------------------ state machine
\* Both widgets right after construction.
Init ==
    /\ chartMap = << >>
    /\ data = << >>
    /\ lines = {}
    /\ maxDisplayedValue = 0
    /\ period = DefaultPeriod
    /\ samplingTime = DefaultSamplingTime
    /\ nChartMap = << >>
    /\ nSamplingTime = NumberSamplingTime
    /\ nText = 0
    /\ last = [op |-> "init", err |-> "none", cut |-> 0]
    /\ runDt = 0
    /\ pushed = << >>

\* The capacity is small enough for the buffers to be enumerated.
Bounded == getAmountOfValues <= MaxCap

Push == \E dataType \in DataTypes, value \in Values :
            Bounded /\ push(dataType, value)

AddDataType == \E dataType \in DataTypes :
            Bounded /\ Len(chartMap) < MaxChartMap /\ addDataType(dataType)

RemoveDataType == \E dataType \in DataTypes : removeDataType(dataType)

ChangePeriod == \E newPeriod \in Periods :
            ExactCapacity(newPeriod, samplingTime) /\ changePeriod(newPeriod)

SetSamplingTime == \E newSamplingTime \in SamplingTimes :
            ExactCapacity(period, newSamplingTime) /\ setSamplingTime(newSamplingTime)

\* The LineChart driven by any sequence of calls.
Next ==
    \/ Push /\ UNCHANGED <<numberVars, runVars>>
    \/ AddDataType /\ UNCHANGED <<numberVars, runVars>>
    \/ RemoveDataType /\ UNCHANGED <<numberVars, runVars>>
    \/ ChangePeriod /\ UNCHANGED <<numberVars, runVars>>
    \/ SetSamplingTime /\ UNCHANGED <<numberVars, runVars>>

Spec == Init /\ [][Next]_vars

\* The run history keeps the last MaxRun values pushed on the followed series.
Window(arr) == IF Len(arr) > MaxRun THEN Tail(arr) ELSE arr

NoRun == runDt' = 0 /\ pushed' = << >>

\* The LineChart with the history of the pushes made on the series added
\* last: a configuration change or the removal of the series ends the run.
NextRun ==
    \/ \E dataType \in DataTypes, value \in Values :
          /\ Bounded /\ push(dataType, value)
          /\ runDt' = runDt
          /\ pushed' = IF dataType = runDt THEN Window(Append(pushed, value)) ELSE pushed
          /\ UNCHANGED numberVars
    \/ \E dataType \in DataTypes :
          /\ Bounded /\ Len(chartMap) < MaxChartMap /\ addDataType(dataType)
          /\ IF last'.err = "none"
             THEN runDt' = dataType /\ pushed' = << >>
             ELSE UNCHANGED runVars
          /\ UNCHANGED numberVars
    \/ \E dataType \in DataTypes :
          /\ removeDataType(dataType)
          /\ IF dataType = runDt THEN NoRun ELSE UNCHANGED runVars
          /\ UNCHANGED numberVars
    \/ ChangePeriod /\ NoRun /\ UNCHANGED numberVars
    \/ SetSamplingTime /\ NoRun /\ UNCHANGED numberVars

RunSpec == Init /\ [][NextRun]_vars

\* The NumberChart driven by any sequence of calls.
NextNumber ==
    \/ \E lineId \in DataTypes, value \in Values :
          NumberChart_push(lineId, value) /\ UNCHANGED <<lineVars, runVars>>
    \/ \E dataType \in DataTypes :
          /\ Len(nChartMap) < MaxChartMap
          /\ NumberChart_addDataType(dataType)
          /\ UNCHANGED <<lineVars, runVars>>
    \/ \E dataType \in DataTypes :
          NumberChart_removeDataType(dataType) /\ UNCHANGED <<lineVars, runVars>>
    \/ \E newSamplingTime \in SamplingTimes :
          NumberChart_setSamplingTime(newSamplingTime) /\ UNCHANGED <<lineVars, runVars>>

NumberSpec == Init /\ [][NextNumber]_vars

\* --------------------------------------------------- claim vocabulary
\* Every sample currently held in a live buffer of d.
AllSamples(d) == UNION {Range(d[dataType]) : dataType \in DOMAIN d}

\* The largest sample held in any live buffer of d (d holds a sample).
TrueMax(d) == SetMax(AllSamples(d))

NoDuplicates(arr) == \A i, j \in DOMAIN arr : arr[i] = arr[j] => i = j

\* C1: in every reachable state every live buffer is at most as long as the
\* current capacity getAmountOfValues().
C1_LengthWithinCapacity ==
    \A dataType \in DOMAIN data : Len(data[dataType]) <= getAmountOfValues

\* C2: once more than C = getAmountOfValues() values have been pushed in a
\* row on a series added at capacity C, its buffer has length exactly C and
\* holds the last C pushed values in push order.
C2_BufferHoldsLastCapacityValues ==
    (runDt # 0 /\ Len(pushed) > getAmountOfValues)
    => /\ Len(data[runDt]) = getAmountOfValues
       /\ data[runDt] = SubSeq(pushed, Len(pushed) - getAmountOfValues + 1, Len(pushed))

\* C3: in every reachable state maxDisplayedValue is greater than or equal
\* to every sample present in every live buffer.
C3_MaxBoundsSamples ==
    \A dataType \in DOMAIN data :
        \A i \in DOMAIN data[dataType] : data[dataType][i] <= maxDisplayedValue

\* With two live series, a push has just appended the largest value to one
\* buffer and the displayed maximum has followed it.
C3_Witness ==
    /\ last = [op |-> "push", err |-> "none", cut |-> 0]
    /\ Cardinality(DOMAIN data) = 2
    /\ maxDisplayedValue = MaxVal
    /\ \E dataType \in DOMAIN data :
          /\ Len(data[dataType]) > 0
          /\ data[dataType][Len(data[dataType])] = MaxVal

\* C4: a push that evicts a sample equal to the displayed maximum leaves
\* maxDisplayedValue equal to the true maximum over the samples of all live
\* buffers and the value just pushed.
C4_EvictionRecomputesTrueMax ==
    [][\A dataType \in DOMAIN data : \A value \in Values :
          ( /\ push(dataType, value)
            /\ Len(data[dataType]) + 1 >= getAmountOfValues
            /\ Append(data[dataType], value)[1] = maxDisplayedValue )
          => maxDisplayedValue' = SetMax(AllSamples(data') \cup {value})]_vars

\* C5: removeDataType(s) of a registered series deletes its buffer, leaves
\* the other buffers unchanged and sets maxDisplayedValue to the maximum
\* sample over the remaining live buffers.
C5_RemoveRecomputesMax ==
    [][\A dataType \in DOMAIN data :
          (dataType \in Range(chartMap) /\ removeDataType(dataType))
          => /\ dataType \notin DOMAIN data'
             /\ \A other \in (DOMAIN data) \ {dataType} :
                    other \in DOMAIN data' /\ data'[other] = data[other]
             /\ AllSamples(data') # {} => maxDisplayedValue' = TrueMax(data')]_vars

\* C6: getMaxValueFromData() returns the maximum sample over all live
\* buffers whatever they hold, and 0 when there is no live buffer.
C6_GetMaxIsTrueMax ==
    /\ AllSamples(data) # {} => getMaxValueFromData(data) = TrueMax(data)
    /\ DOMAIN data = {} => getMaxValueFromData(data) = 0

\* C7: addDataType(s) creates a zero-filled buffer whose length is the
\* current capacity, registers s in chartMap, and leaves the other buffers
\* and maxDisplayedValue unchanged.
C7_AddAllocatesCapacity ==
    [][\A dataType \in DataTypes :
          (addDataType(dataType) /\ last'.err = "none")
          => /\ dataType \in DOMAIN data'
             /\ Len(data'[dataType]) = getAmountOfValues
             /\ Range(data'[dataType]) \subseteq {0}
             /\ dataType \in Range(chartMap')
             /\ \A other \in (DOMAIN data) \ {dataType} : data'[other] = data[other]
             /\ maxDisplayedValue' = maxDisplayedValue]_vars

C9_UnregisteredIsNoOp ==
    [][\A dataType \in DataTypes :
          ( /\ dataType \notin Range(chartMap)
            /\ dataType \notin DOMAIN data
            /\ \/ \E value \in Values : push(dataType, value)
               \/ removeDataType(dataType) )
          => /\ last'.err = "none"
             /\ UNCHANGED <<chartMap, data, maxDisplayedValue>>]_vars

\* C10: the series listed in chartMap are exactly the series with a live
\* buffer, none listed twice.
C10_LegendMatchesData ==
    /\ Range(chartMap) = DOMAIN data
    /\ NoDuplicates(chartMap)

====
